---- MODULE Spec2Model ----
(***************************************************************************)
(* finance-buddy: the client-side document processing pipeline.            *)
(*                                                                         *)
(* The repository holds two front ends over the same pipeline:             *)
(*   - the Index page, driven by the useDocumentProcessor hook             *)
(*     (processFiles / deleteDocument / clearDocuments / refreshDocuments, *)
(*     local snapshot in localStorage, best-effort Supabase mirror);       *)
(*   - the App page, driven by the DocumentProcessor component             *)
(*     (handleFileUpload / processAll / handleStop).                       *)
(* `app` says which of the two is mounted; the other one's state stays at  *)
(* its initial value.                                                      *)
(*                                                                         *)
(* React state updaters are taken to be applied in the order they are      *)
(* queued, so a setDocuments(prev => ...) is one atomic assignment, and    *)
(* every async handler runs atomically between two awaits.  Consecutive    *)
(* awaits of one handler on the same service (getSession, upload, insert)  *)
(* settle in one step.  Writes to localStorage are taken to succeed.  A    *)
(* record is its id, status and error text; the mirror is the table        *)
(* processed_documents (the uploaded file bytes in the storage bucket are  *)
(* not followed).  The user stays signed in.                               *)
(***************************************************************************)
EXTENDS Naturals, Integers, Sequences, FiniteSets, TLC

\* ---------------------------------------------------------------- bounds
MaxDocs == 2            \* records ever created in one session
MaxBatch == 2           \* files handed over in one submission
MaxPendingClears == 1   \* clearDocuments calls awaiting the mirror at once
TicksPerHour == 2       \* clock readings per CACHE_DURATION
MaxTicks == 3           \* how far the clock runs
SubCent == 10           \* amounts are counted in 1/SubCent of a cent

\* ------------------------------------------------------------- constants
STORAGE_KEY == "finance-buddy-documents"
\* localStorage.getItem(STORAGE_KEY) === null
Absent == [present |-> FALSE, docs |-> <<>>]
Undefined == "undefined"    \* a field that is not set
None == [op |-> "none", id |-> 0, remote |-> "none", result |-> "none"]

VARIABLES
    app,                \* "hook" | "component": the page that is mounted
    \* --- useDocumentProcessor
    isAdmin,            \* localStorage 'admin-token' === 'admin-logged-in'
    documents,          \* useState<ProcessedDocument[]>
    stored,             \* localStorage[STORAGE_KEY]: is it set, and the list it holds
    rows,               \* remote table processed_documents, oldest first
    isProcessing,       \* useState(false)
    runs,               \* the processFiles invocations that have not returned
    nextId,             \* next value of crypto.randomUUID()
    delOps,             \* ids of the deleteDocument calls awaiting the mirror
    clearOps,           \* number of clearDocuments calls awaiting the mirror
    loadPending,        \* a loadDocuments call is awaiting the mirror
    \* --- DocumentProcessor
    cDocuments,         \* useState<ProcessedDocument[]>
    cIsProcessing,      \* useState(false)
    stopProcessingRef,  \* useRef(false)
    cRuns,              \* the processAll invocations that have not returned
    cNextId,            \* next Math.random() id
    \* --- observation
    lastOp,             \* the step taken last: what it did and what came back
    deleted,            \* ids removed by a deleteDocument or clearDocuments
                        \* whose mirror calls all succeeded
    removed,            \* deleteDocument or clearDocuments has been called
    \* --- the currency converter (module state and its caller)
    now,                \* Date.now()
    ratesCache,         \* let ratesCache: ExchangeRates | null
    cacheTimestamp,     \* let cacheTimestamp: number
    rcall,              \* the conversion that is awaiting its rate fetch
    rget,               \* the getExchangeRates call of the conversion begun last
    rret,               \* the conversion that returned last
    \* --- the process-document function
    gw,                 \* the request it is serving, and its response
    \* --- one document's extracted data
    ex                  \* where its extraction stands, and the data so far

hookVars == <<isAdmin, documents, stored, rows,
              isProcessing, runs, nextId, delOps, clearOps, loadPending>>
compVars == <<cDocuments, cIsProcessing, stopProcessingRef, cRuns, cNextId>>
obsVars == <<lastOp, deleted, removed>>
pageVars == <<hookVars, compVars, obsVars>>
rateVars == <<now, ratesCache, cacheTimestamp, rcall, rget, rret>>
svcVars == <<rateVars, gw, ex>>
vars == <<app, pageVars, svcVars>>

\* ----------------------------------------------------------- sequences
Ids(docs) == {docs[i].id : i \in DOMAIN docs}

IdSeq(docs) == [i \in DOMAIN docs |-> docs[i].id]

Reverse(s) == [i \in DOMAIN s |-> s[Len(s) + 1 - i]]

\* a slip: the list is rebuilt from the one record at hand
ReplaceDocOnly(docs, docId, newDoc) ==
    IF docId \in Ids(docs) THEN <<newDoc>> ELSE <<>>

\* a slip: a record that is not in the list is put back at its head
ReplaceDocOrAdd(docs, docId, newDoc) ==
    IF docId \in Ids(docs)
    THEN [i \in DOMAIN docs |-> IF docs[i].id = docId THEN newDoc ELSE docs[i]]
    ELSE <<newDoc>> \o docs

\* prev.map(doc => doc.id === docId ? newDoc : doc)
ReplaceDoc(docs, docId, newDoc) ==
    [i \in DOMAIN docs |-> IF docs[i].id = docId THEN newDoc ELSE docs[i]]

\* prev.filter(d => d.id !== docId)
RemoveDoc(docs, docId) == SelectSeq(docs, LAMBDA d : d.id # docId)

DocOf(docs, docId) == docs[CHOOSE i \in DOMAIN docs : docs[i].id = docId]

StatusOf(docs, docId) ==
    IF docId \in Ids(docs) THEN DocOf(docs, docId).status ELSE "absent"

RemoveAt(s, i) == [j \in 1..(Len(s) - 1) |-> IF j < i THEN s[j] ELSE s[j + 1]]

\* ====================================================================
\* useDocumentProcessor (the Index page)
\* ====================================================================

\* const newDoc: ProcessedDocument = { id: docId, ..., status: 'processing' }
NewDoc(docId) ==
    [id |-> docId, status |-> "processing", errorMessage |-> Undefined]

\* const updatedDoc = { ...newDoc, ..., status: 'completed' }
UpdatedDoc(docId) ==
    [id |-> docId, status |-> "completed", errorMessage |-> Undefined]

\* const errorDoc = { ...newDoc, status: 'error', errorMessage: ... }
ErrorDoc(docId, message) ==
    [id |-> docId, status |-> "error", errorMessage |-> message]

\* a slip: an empty list is not written (if (docs.length) setItem(...))
SaveUnlessEmpty(docs) ==
    IF docs = <<>> THEN stored ELSE [present |-> TRUE, docs |-> docs]

\* localStorage.setItem(STORAGE_KEY, JSON.stringify(docs)): the value the key
\* holds afterwards
SaveDocumentsToLocalStorage(docs) == [present |-> TRUE, docs |-> docs]

\* JSON.parse(localStorage.getItem(STORAGE_KEY)): the records the key holds
SnapshotDocs(st) == IF st.present THEN st.docs ELSE <<>>

\* a slip: the placeholder is pushed to the end of the list
AddPlaceholderAtEnd(prev, newDoc) == prev \o <<newDoc>>

\* setDocuments(prev => [newDoc, ...prev])
AddPlaceholder(prev, newDoc) == <<newDoc>> \o prev

\* a slip: the upload zone is never disabled
UploadZoneAlwaysEnabled == TRUE

\* <input disabled={isProcessing}> and pointer-events-none on the drop zone:
\* the only caller of processFiles hands files over while no run is active
UploadZoneEnabled == ~isProcessing

\* What the try block of processFiles ends with.  read: fileToBase64;
\* invoke: the answer of supabase.functions.invoke; url: VITE_SUPABASE_URL
\* includes 'supabase.co'; direct: the answer of the direct fetch.
ReadAnswers == {"ok", "rejects"}
\* "unreachable": the function could not be reached (no response); "429",
\* "402", "500": it answered with that status
InvokeAnswers == {"ok", "malformed", "429", "402", "500", "unreachable"}
DirectAnswers == {"ok", "429", "402", "500", "throws"}

\* the outcome of the try block: did it end well, the class of the failure
\* ("mock": the result is mockProcessDocument's), the error text, and for a
\* mock result the answer of functions.invoke that led to it
Outcome(ok, class, message, after) ==
    [ok |-> ok, class |-> class, message |-> message, after |-> after]

\* if (SUPABASE_URL && SUPABASE_URL.includes('supabase.co')) ... else mock
UseMock(url) == ~url

Extraction(read, invoke, url, direct) ==
    IF read = "rejects"
    THEN Outcome(FALSE, "read", "Processing failed", "none")
    ELSE IF invoke = "ok"
    THEN Outcome(TRUE, "none", Undefined, "none")
    ELSE IF invoke = "malformed"
    THEN Outcome(FALSE, "malformed", "Cannot read properties of undefined",
                 "none")
    ELSE IF UseMock(url)
    THEN Outcome(TRUE, "mock", Undefined, invoke)
    ELSE IF direct = "ok"
    THEN Outcome(TRUE, "none", Undefined, "none")
    ELSE IF direct = "throws"
    THEN Outcome(FALSE, "unavailable", "Failed to fetch", "none")
    ELSE Outcome(FALSE, direct, "API call failed", "none")

\* every way the try block can end
Extractions ==
    {Extraction(read, invoke, url, direct) :
        read \in ReadAnswers, invoke \in InvokeAnswers, url \in BOOLEAN,
        direct \in DirectAnswers}

\* What the mirror calls of one handler end with: getSession finds no
\* session, a call throws or answers with an error, or the row is written.
MirrorAnswers == {"ok", "noSession", "fails"}

MirrorFailed(m) == m # "ok"

\* a slip: the flag is left set when the loop is over
AfterLoopStillRunning == TRUE

\* setIsProcessing(false) behind the loop: the value the flag gets
AfterLoop == FALSE

\* The top of the for loop of processFiles for the run at position i, entered
\* with the collection docs and the snapshot st: the next file's placeholder
\* is added and its extraction begins, or the loop is over.
NextFile(i, docs, st) ==
    LET r == runs[i] IN
    IF r.k < r.n
    THEN LET updated == AddPlaceholder(docs, NewDoc(nextId)) IN
         /\ documents' = updated
         /\ stored' = SaveDocumentsToLocalStorage(updated)
         /\ runs' = [runs EXCEPT ![i] = [n |-> r.n, k |-> r.k + 1,
                                         pc |-> "extract", id |-> nextId,
                                         ids |-> Append(r.ids, nextId)]]
         /\ nextId' = nextId + 1
         /\ UNCHANGED isProcessing
    ELSE /\ documents' = docs
         /\ stored' = st
         /\ runs' = RemoveAt(runs, i)
         /\ isProcessing' = AfterLoop
         /\ UNCHANGED nextId

\* processFiles(files), n files, up to its first await
ProcessFiles(n) ==
    /\ app = "hook"
    /\ UploadZoneEnabled
    /\ nextId + n - 1 <= MaxDocs
    /\ LET updated == AddPlaceholder(documents, NewDoc(nextId)) IN
       /\ documents' = updated
       /\ stored' = SaveDocumentsToLocalStorage(updated)
    /\ isProcessing' = TRUE
    /\ runs' = Append(runs, [n |-> n, k |-> 1, pc |-> "extract",
                             id |-> nextId, ids |-> <<nextId>>])
    /\ nextId' = nextId + 1
    /\ lastOp' = [op |-> "submit", id |-> nextId, remote |-> "none",
                  result |-> "none"]
    /\ UNCHANGED <<app, svcVars, isAdmin, rows, delOps,
                   clearOps, loadPending, compVars, deleted, removed>>

\* the extraction of the current file of run i ends well: lines 217-260
ExtractionSucceeds(i, e) ==
    /\ app = "hook"
    /\ i \in DOMAIN runs
    /\ runs[i].pc = "extract"
    /\ e \in Extractions
    /\ e.ok
    /\ LET docId == runs[i].id
           updated == ReplaceDoc(documents, docId, UpdatedDoc(docId))
           st == SaveDocumentsToLocalStorage(updated)
       IN IF isAdmin
          THEN NextFile(i, updated, st)
          ELSE /\ documents' = updated
               /\ stored' = st
               /\ runs' = [runs EXCEPT ![i].pc = "mirror"]
               /\ UNCHANGED <<nextId, isProcessing>>
    /\ lastOp' = [op |-> "complete", id |-> runs[i].id, remote |-> e.after,
                  result |-> IF e.class = "mock" THEN "mock" ELSE "ok"]
    /\ UNCHANGED <<app, svcVars, isAdmin, rows, delOps,
                   clearOps, loadPending, compVars, deleted, removed>>

\* the extraction of the current file of run i throws: lines 297-320
ExtractionFails(i, e) ==
    /\ app = "hook"
    /\ i \in DOMAIN runs
    /\ runs[i].pc = "extract"
    /\ e \in Extractions
    /\ ~e.ok
    /\ LET docId == runs[i].id
           updated == ReplaceDoc(documents, docId, ErrorDoc(docId, e.message))
       IN /\ NextFile(i, updated, SaveDocumentsToLocalStorage(updated))
          /\ lastOp' = [op |-> "error", id |-> docId, remote |-> "none",
                        result |-> e.class]
    /\ UNCHANGED <<app, svcVars, isAdmin, rows, delOps,
                   clearOps, loadPending, compVars, deleted, removed>>

\* getSession, storage.upload and insert of run i have come back: lines 261-295
MirrorSettles(i, m) ==
    /\ app = "hook"
    /\ i \in DOMAIN runs
    /\ runs[i].pc = "mirror"
    /\ m \in MirrorAnswers
    /\ LET docId == runs[i].id IN
       /\ rows' = IF m = "ok" /\ docId \notin Ids(rows)
                  THEN Append(rows, UpdatedDoc(docId))
                  ELSE rows
       /\ lastOp' = [op |-> "mirror", id |-> docId,
                     remote |-> IF MirrorFailed(m) THEN "fail" ELSE "ok",
                     result |-> "none"]
    /\ NextFile(i, documents, stored)
    /\ UNCHANGED <<app, svcVars, isAdmin, delOps, clearOps,
                   loadPending, compVars, deleted, removed>>

\* deleteDocument(docId) up to its first await; the admin user has none
DeleteDocument(docId) ==
    /\ app = "hook"
    /\ docId \in 1..(nextId - 1)
    /\ IF isAdmin
       THEN LET updated == RemoveDoc(documents, docId) IN
            /\ documents' = updated
            /\ stored' = SaveDocumentsToLocalStorage(updated)
            /\ lastOp' = [op |-> "delete", id |-> docId, remote |-> "none",
                          result |-> "none"]
            /\ UNCHANGED delOps
       ELSE /\ docId \notin delOps
            /\ delOps' = delOps \cup {docId}
            /\ lastOp' = None
            /\ UNCHANGED <<documents, stored>>
    /\ removed' = TRUE
    /\ UNCHANGED <<app, svcVars, isAdmin, rows, isProcessing,
                   runs, nextId, clearOps, loadPending, compVars, deleted>>

\* a slip: the local removal sits inside the try block, after the mirror
\* calls, so a mirror failure skips it
DeleteSettlesInsideTry(docId, m) ==
    /\ app = "hook"
    /\ docId \in delOps
    /\ m \in MirrorAnswers
    /\ LET updated == IF MirrorFailed(m) THEN documents
                      ELSE RemoveDoc(documents, docId)
       IN /\ rows' = IF m = "ok" THEN RemoveDoc(rows, docId) ELSE rows
          /\ documents' = updated
          /\ stored' = IF MirrorFailed(m) THEN stored
                       ELSE [present |-> TRUE, docs |-> updated]
          /\ lastOp' = [op |-> "delete", id |-> docId,
                        remote |-> IF MirrorFailed(m) THEN "fail" ELSE "ok",
                        result |-> "none"]
    /\ delOps' = delOps \ {docId}
    /\ deleted' = IF m = "ok" THEN deleted \cup {docId} ELSE deleted
    /\ UNCHANGED <<app, svcVars, isAdmin, isProcessing, runs, nextId,
                   clearOps, loadPending, compVars, removed>>

\* the mirror calls of deleteDocument(docId) have come back (lines 339-350),
\* and the record leaves the collection (lines 353-358)
DeleteSettles(docId, m) ==
    /\ app = "hook"
    /\ docId \in delOps
    /\ m \in MirrorAnswers
    /\ LET updated == RemoveDoc(documents, docId)
       IN /\ rows' = IF m = "ok" THEN RemoveDoc(rows, docId) ELSE rows
          /\ documents' = updated
          /\ stored' = SaveDocumentsToLocalStorage(updated)
          /\ lastOp' = [op |-> "delete", id |-> docId,
                        remote |-> IF MirrorFailed(m) THEN "fail" ELSE "ok",
                        result |-> "none"]
    /\ delOps' = delOps \ {docId}
    /\ deleted' = IF m = "ok" THEN deleted \cup {docId} ELSE deleted
    /\ UNCHANGED <<app, svcVars, isAdmin, isProcessing, runs, nextId,
                   clearOps, loadPending, compVars, removed>>

\* a slip: the records still being processed are kept
ClearedCollectionKeepsInFlight(prev) ==
    SelectSeq(prev, LAMBDA d : d.status = "processing")

\* setDocuments([])
ClearedCollection(prev) == <<>>

\* what a clearDocuments call leaves in lastOp: it resolves, and "again" says
\* that no other operation has completed since the previous clearDocuments
ClearResult == IF lastOp.op = "clear" THEN "again" ELSE "first"

\* clearDocuments() up to its first await; the admin user has none
ClearDocuments ==
    /\ app = "hook"
    /\ IF isAdmin
       THEN /\ documents' = ClearedCollection(documents)
            /\ stored' = Absent
            /\ lastOp' = [op |-> "clear", id |-> 0, remote |-> "none",
                          result |-> ClearResult]
            /\ UNCHANGED clearOps
       ELSE /\ clearOps < MaxPendingClears
            /\ clearOps' = clearOps + 1
            /\ lastOp' = IF lastOp.op = "clear" THEN lastOp ELSE None
            /\ UNCHANGED <<documents, stored>>
    /\ removed' = TRUE
    /\ UNCHANGED <<app, svcVars, isAdmin, rows, isProcessing,
                   runs, nextId, delOps, loadPending, compVars, deleted>>

\* the mirror calls of one clearDocuments have come back (lines 382-393),
\* and the collection is emptied (lines 396-398)
ClearSettles(m) ==
    /\ app = "hook"
    /\ clearOps > 0
    /\ m \in MirrorAnswers
    /\ rows' = IF m = "ok" THEN <<>> ELSE rows
    /\ documents' = ClearedCollection(documents)
    /\ stored' = Absent
    /\ lastOp' = [op |-> "clear", id |-> 0,
                  remote |-> IF MirrorFailed(m) THEN "fail" ELSE "ok",
                  result |-> ClearResult]
    /\ clearOps' = clearOps - 1
    /\ deleted' = IF m = "ok"
                  THEN deleted \cup Ids(documents) \cup Ids(rows)
                  ELSE deleted
    /\ UNCHANGED <<app, svcVars, isAdmin, isProcessing, runs, nextId,
                   delOps, loadPending, compVars, removed>>

\* refreshDocuments(): loadDocumentsFromLocalStorage(), then loadDocuments()
\* up to its first await
RefreshDocuments ==
    /\ app = "hook"
    /\ ~loadPending
    /\ documents' = IF stored.present THEN stored.docs ELSE documents
    /\ loadPending' = ~isAdmin
    /\ lastOp' = None
    /\ UNCHANGED <<app, svcVars, isAdmin, stored, rows,
                   isProcessing, runs, nextId, delOps, clearOps, compVars, deleted, removed>>

\* the rows of the mirror as loadDocuments maps them: newest first
LoadedDocs == Reverse(rows)

\* getSession and select of loadDocuments have come back: lines 67-115
LoadSettles(answer) ==
    /\ app = "hook"
    /\ loadPending
    /\ answer \in {"ok", "noSession", "error"}
    /\ documents' = IF answer = "ok" THEN LoadedDocs ELSE documents
    /\ loadPending' = FALSE
    /\ lastOp' = None
    /\ UNCHANGED <<app, svcVars, isAdmin, stored, rows,
                   isProcessing, runs, nextId, delOps, clearOps, compVars, deleted, removed>>

\* ====================================================================
\* DocumentProcessor (the App page)
\* ====================================================================

\* { id, fileName, status: 'pending', fileRaw }
PendingDoc(docId) == [id |-> docId, status |-> "pending", error |-> Undefined]

\* a slip: the error text of the earlier attempt is left in place
MarkProcessingKeepsError(docs, docId) ==
    [i \in DOMAIN docs |->
        IF docs[i].id = docId
        THEN [docs[i] EXCEPT !.status = "processing"]
        ELSE docs[i]]

\* prev.map(d => d.id === doc.id ? { ...d, status: 'processing', error: undefined } : d)
MarkProcessing(docs, docId) ==
    [i \in DOMAIN docs |->
        IF docs[i].id = docId
        THEN [docs[i] EXCEPT !.status = "processing", !.error = Undefined]
        ELSE docs[i]]

\* a slip: a result that arrives after a stop request is dropped
MarkCompletedUnlessStopped(docs, docId) ==
    [i \in DOMAIN docs |->
        IF docs[i].id = docId /\ ~stopProcessingRef
        THEN [docs[i] EXCEPT !.status = "completed"]
        ELSE docs[i]]

\* prev.map(d => d.id === doc.id ? { ...d, status: 'completed', data: result } : d)
MarkCompleted(docs, docId) ==
    [i \in DOMAIN docs |->
        IF docs[i].id = docId
        THEN [docs[i] EXCEPT !.status = "completed"]
        ELSE docs[i]]

\* a slip: the fallback text is left out
AnalysisErrorRaw(message) == message

\* err.message || "Analysis failed"
AnalysisError(message) == IF message = "" THEN "Analysis failed" ELSE message

\* prev.map(d => d.id === doc.id ? { ...d, status: 'error', error: ... } : d)
MarkError(docs, docId, message) ==
    [i \in DOMAIN docs |->
        IF docs[i].id = docId
        THEN [docs[i] EXCEPT !.status = "error",
                             !.error = AnalysisError(message)]
        ELSE docs[i]]

\* a slip: the filter lets completed records through as well
PendingDocsAll(docs) == IdSeq(docs)

\* documents.filter(d => d.status === 'pending' || d.status === 'error')
PendingDocs(docs) ==
    IdSeq(SelectSeq(docs, LAMBDA d : d.status \in {"pending", "error"}))

\* a slip: the running flag is not looked at
ProcessAllEnabledWhileRunning ==
    /\ cDocuments # <<>>
    /\ \E i \in DOMAIN cDocuments : cDocuments[i].status # "completed"

\* if (isProcessing) return; the Process Queue button is also replaced by
\* the Stop button while isProcessing, and disabled when nothing is left
ProcessAllEnabled ==
    /\ ~cIsProcessing
    /\ cDocuments # <<>>
    /\ \E i \in DOMAIN cDocuments : cDocuments[i].status # "completed"

\* a slip: the loop never looks at the stop signal
StopSignalIgnored == FALSE

\* if (stopProcessingRef.current) break;
StopSignal == stopProcessingRef

ErrorMessages == {"", "Quota exceeded"}

\* The top of the for loop of processAll for the run at position i, entered
\* with the collection docs: the stop signal is checked, then the next record
\* is marked processing and its analysis begins, or the loop is over.
NextDoc(i, run, docs, stop) ==
    IF ~stop /\ run.idx < Len(run.pending)
    THEN /\ cDocuments' = MarkProcessing(docs, run.pending[run.idx + 1])
         /\ cRuns' = [cRuns EXCEPT ![i] = [run EXCEPT !.idx = run.idx + 1]]
         /\ UNCHANGED cIsProcessing
    ELSE /\ cDocuments' = docs
         /\ cRuns' = RemoveAt(cRuns, i)
         /\ cIsProcessing' = FALSE

\* handleFileUpload with n files
HandleFileUpload(n) ==
    /\ app = "component"
    /\ cNextId + n - 1 <= MaxDocs
    /\ cDocuments' = cDocuments \o [j \in 1..n |-> PendingDoc(cNextId + j - 1)]
    /\ cNextId' = cNextId + n
    /\ lastOp' = [op |-> "upload", id |-> cNextId, remote |-> "none",
                  result |-> "none"]
    /\ UNCHANGED <<app, svcVars, hookVars, cIsProcessing, stopProcessingRef, cRuns, deleted, removed>>

\* a slip: the stop signal of the run before is left as it is
StopSignalCarriedOver == stopProcessingRef

\* stopProcessingRef.current = false at the start of processAll
StopSignalAtStart == FALSE

\* processAll() up to its first await
ProcessAll ==
    /\ app = "component"
    /\ ProcessAllEnabled
    /\ stopProcessingRef' = StopSignalAtStart
    /\ LET run == [pending |-> PendingDocs(cDocuments), idx |-> 0]
           i == Len(cRuns) + 1
       IN IF run.pending # <<>>
          THEN /\ cDocuments' = MarkProcessing(cDocuments, run.pending[1])
               /\ cRuns' = Append(cRuns, [run EXCEPT !.idx = 1])
               /\ cIsProcessing' = TRUE
          ELSE /\ cIsProcessing' = FALSE
               /\ UNCHANGED <<cDocuments, cRuns>>
    /\ lastOp' = LET pending == PendingDocs(cDocuments) IN
                  IF pending = <<>> THEN None
                  ELSE [op |-> "processAll", id |-> pending[1],
                        remote |-> IF stopProcessingRef THEN "stop"
                                   ELSE "none",
                        result |-> StatusOf(cDocuments, pending[1])]
    /\ UNCHANGED <<app, svcVars, hookVars, cNextId, deleted, removed>>

\* analyzeFinancialDocument of run i resolves: line 56, then the loop goes on
AnalysisSucceeds(i) ==
    /\ app = "component"
    /\ i \in DOMAIN cRuns
    /\ LET run == cRuns[i]
           docId == run.pending[run.idx]
       IN /\ NextDoc(i, run, MarkCompleted(cDocuments, docId), StopSignal)
          /\ lastOp' = [op |-> "analysed", id |-> docId, remote |-> "none",
                        result |-> "ok"]
    /\ UNCHANGED <<app, svcVars, hookVars, stopProcessingRef, cNextId, deleted, removed>>

\* analyzeFinancialDocument of run i rejects: line 58, then the loop goes on
AnalysisFails(i, message) ==
    /\ app = "component"
    /\ i \in DOMAIN cRuns
    /\ message \in ErrorMessages
    /\ LET run == cRuns[i]
           docId == run.pending[run.idx]
       IN /\ NextDoc(i, run, MarkError(cDocuments, docId, message), StopSignal)
          /\ lastOp' = [op |-> "analysed", id |-> docId, remote |-> "none",
                        result |-> IF message = "" THEN "fail" ELSE "402"]
    /\ UNCHANGED <<app, svcVars, hookVars, stopProcessingRef, cNextId, deleted, removed>>

\* handleStop: the Stop button is shown while isProcessing
HandleStop ==
    /\ app = "component"
    /\ cIsProcessing
    /\ stopProcessingRef' = TRUE
    /\ lastOp' = [op |-> "stop", id |-> 0, remote |-> "none",
                  result |-> "none"]
    /\ UNCHANGED <<app, svcVars, hookVars, cDocuments, cIsProcessing, cRuns, cNextId, deleted, removed>>

\* ====================================================================
\* The currency converter (services/currencyConverter)
\* ====================================================================
\* Its only caller, processFiles, awaits one conversion after the other, so
\* one conversion is under way at a time; the clock may move on while a rate
\* fetch is awaited.  Amounts are exact: an amount is an integer number of
\* 1/SubCent cents and a rate is a fraction n/d (the rounding error of
\* floating point is not followed).  null is <<>>, a present value v is <<v>>.

Null == <<>>

\* const CACHE_DURATION = 3600000; // 1 hour
CACHE_DURATION == 3600000

\* the clock readings are Tick apart
Tick == CACHE_DURATION \div TicksPerHour

Rate(n, d) == [n |-> n, d |-> d]

\* NaN as a rate: 1 / (a value that is no number)
NaN == Rate(0, 0)

\* FALLBACK_RATES, its entries CHF: 1, EUR: 0.95 and JPY: 0.0064
FALLBACK_RATES ==
    [c \in {"CHF", "EUR", "JPY"} |->
        CASE c = "CHF" -> Rate(1, 1)
          [] c = "EUR" -> Rate(19, 20)
          [] c = "JPY" -> Rate(4, 625)]

\* What the rate provider answers: a 200 response whose body carries
\* data.rates (units per CHF; "badRates" is { "rates": { "EUR": "n/a" } }),
\* a 200 response whose JSON has no rates, a 200 response that is no JSON,
\* a status outside 2xx, or no response at all.
ProviderAnswers ==
    {"live1", "live2", "badRates", "noRates", "unparsable", "non2xx",
     "networkError"}

\* the answers that are failures of the live refresh
FailedAnswers == ProviderAnswers \ {"live1", "live2"}

DataRates(answer) ==
    CASE answer = "live1" ->
            [c \in {"CHF", "EUR", "JPY"} |->
                CASE c = "CHF" -> Rate(1, 1)
                  [] c = "EUR" -> Rate(21, 20)
                  [] c = "JPY" -> Rate(160, 1)]
      [] answer = "live2" ->
            [c \in {"CHF", "EUR", "JPY"} |->
                CASE c = "CHF" -> Rate(1, 1)
                  [] c = "EUR" -> Rate(11, 10)
                  [] c = "JPY" -> Rate(150, 1)]
      [] answer = "badRates" -> [c \in {"EUR"} |-> NaN]

\* rates[currency] = 1 / (rate as number)
Inverse(rate) == IF rate = NaN THEN NaN ELSE Rate(rate.d, rate.n)

\* fetchExchangeRates(): null when fetch or response.json() throws, when the
\* status is not ok, or when Object.entries(data.rates) throws; otherwise
\* { CHF: 1 } overwritten by the inverted entries of data.rates
FetchExchangeRates(answer) ==
    IF answer \in {"networkError", "non2xx", "unparsable", "noRates"}
    THEN Null
    ELSE <<[c \in {"CHF"} \cup DOMAIN DataRates(answer) |->
              IF c \in DOMAIN DataRates(answer)
              THEN Inverse(DataRates(answer)[c]) ELSE Rate(1, 1)]>>

\* a slip: the cache is still used at the very end of the window
CacheValidInclusive(t) ==
    ratesCache # Null /\ (t - cacheTimestamp) <= CACHE_DURATION

\* if (ratesCache && (now - cacheTimestamp) < CACHE_DURATION)
CacheValid(t) == ratesCache # Null /\ (t - cacheTimestamp) < CACHE_DURATION

\* !rate: the currency is no key of the table, or its rate is NaN or 0
NoRate(rates, currency) ==
    currency \notin DOMAIN rates \/ rates[currency].n = 0

\* fromCurrency.toUpperCase()
ToUpperCase(s) ==
    CASE s = "eur" -> "EUR"
      [] s = "chf" -> "CHF"
      [] OTHER -> s

\* Math.round(p / q), q > 0: the nearest integer, a half going up
MathRound(p, q) == (2 * p + q) \div (2 * q)

\* Math.round((p / q) * 100) / 100 for an amount p / q
Round2(p, q) == MathRound(p, q * SubCent) * SubCent

\* a slip: the amount is handed back as it came
OneToOneRaw(amount) == amount

\* Unknown currency, using 1:1 conversion: Math.round(amount * 100) / 100
OneToOne(amount) == Round2(amount, 1)

\* lines 758-766: amount / rate, rounded, or the amount 1:1
DivideByRate(rates, amount, currency) ==
    IF NoRate(rates, currency)
    THEN OneToOne(amount)
    ELSE Round2(amount * rates[currency].d, rates[currency].n)

\* lines 804-810: inCHF * targetRate, rounded, or the CHF value
TimesTargetRate(rates, inCHF, currency) ==
    IF NoRate(rates, currency)
    THEN inCHF
    ELSE Round2(inCHF * rates[currency].n, rates[currency].d)

\* a slip: only the amount is looked at
AbsentAmount(amount, fromCurrency) == amount = Null

\* if (amount === null || fromCurrency === null) return null
AbsentArgs(amount, fromCurrency) == amount = Null \/ fromCurrency = Null

\* the table of the process-document function: the same entries
conversionRates == FALLBACK_RATES

\* convertToCHF of the process-document function:
\* conversionRates[currency.toUpperCase()] || 1, then
\* Math.round((amount / rate) * 100) / 100
EdgeConvertToCHF(amount, currency) ==
    IF amount = Null \/ currency = Null
    THEN Null
    ELSE LET c == ToUpperCase(currency[1]) IN
         IF NoRate(conversionRates, c)
         THEN <<Round2(amount[1], 1)>>
         ELSE <<Round2(amount[1] * conversionRates[c].d, conversionRates[c].n)>>

\* ---- the calls
\* no amount, half a cent, 1 and 100
Amounts == {Null, <<SubCent \div 2>>, <<100 * SubCent>>, <<10000 * SubCent>>}

CurrencyArgs == {Null, <<"CHF">>, <<"eur">>, <<"JPY">>, <<"XYZ">>}

Idle == [fn |-> "idle", amount |-> Null, from |-> Null, to |-> Null,
         origin |-> Null, pc |-> "none", t |-> 0, inCHF |-> Null]

\* the conversion begun last has not called getExchangeRates
NoGet == [phase |-> "none", answer |-> "none", table |-> Null]

NoReturn == [fn |-> "none", amount |-> Null, from |-> Null, to |-> Null,
             origin |-> Null, value |-> Null, threw |-> FALSE]

Call(fn, amount, from, to, origin) ==
    [fn |-> fn, amount |-> amount, from |-> from, to |-> to,
     origin |-> origin, pc |-> "none", t |-> 0, inCHF |-> Null]

\* the call c returns value
Return(c, value) ==
    [fn |-> c.fn, amount |-> c.amount, from |-> c.from, to |-> c.to,
     origin |-> c.origin, value |-> value, threw |-> FALSE]

\* the call c rejects (a TypeError: null has no toUpperCase)
Throw(c) ==
    [fn |-> c.fn, amount |-> c.amount, from |-> c.from, to |-> c.to,
     origin |-> c.origin, value |-> Null, threw |-> TRUE]

\* getExchangeRates() answered from the cache
Hit == [phase |-> "hit", answer |-> "none", table |-> ratesCache]

\* getExchangeRates() has sent its request
Fetching == [phase |-> "fetching", answer |-> "none", table |-> Null]

\* convertToCHF has its value: convertToCHF returns it; convertCurrency
\* returns it when the target is CHF and goes on to the target rate otherwise
GotCHF(c, inCHF) ==
    IF c.fn = "convertToCHF" \/ ToUpperCase(c.to[1]) = "CHF"
    THEN rcall' = Idle /\ rret' = Return(c, <<inCHF>>)
    ELSE /\ rcall' = [c EXCEPT !.pc = "gotCHF", !.inCHF = <<inCHF>>]
         /\ rret' = NoReturn

\* convertToCHF(amount, fromCurrency), lines 745-766, up to its await of a
\* fetch; a null amount that gets past the test counts as 0
StartToCHF(c) ==
    IF AbsentArgs(c.amount, c.from)
    THEN rcall' = Idle /\ rret' = Return(c, Null) /\ rget' = NoGet
    ELSE IF c.from = Null
    THEN rcall' = Idle /\ rret' = Throw(c) /\ rget' = NoGet
    ELSE LET currency == ToUpperCase(c.from[1])
             amount == IF c.amount = Null THEN 0 ELSE c.amount[1]
         IN IF currency = "CHF"
            THEN GotCHF(c, Round2(amount, 1)) /\ rget' = NoGet
            ELSE IF CacheValid(now)
            THEN /\ rget' = Hit
                 /\ GotCHF(c, DivideByRate(ratesCache[1], amount, currency))
            ELSE /\ rget' = Fetching
                 /\ rcall' = [c EXCEPT !.pc = "toCHF", !.t = now]
                 /\ rret' = NoReturn

\* Date.now() moves on
ClockTick ==
    /\ app = "rates"
    /\ now < CACHE_DURATION + MaxTicks * Tick
    /\ now' = now + Tick
    /\ UNCHANGED <<app, pageVars, ratesCache, cacheTimestamp, rcall, rget, rret, gw, ex>>

\* convertToCHF(amount, fromCurrency)
ConvertToCHF(amount, fromCurrency) ==
    /\ app = "rates"
    /\ rcall = Idle
    /\ StartToCHF(Call("convertToCHF", amount, fromCurrency, <<"CHF">>, Null))
    /\ UNCHANGED <<app, pageVars, now, ratesCache, cacheTimestamp, gw, ex>>

\* convertToCHF(amount, currency) of the process-document function
ServerConvertToCHF(amount, currency) ==
    /\ app = "rates"
    /\ rcall = Idle
    /\ rret' = Return(Call("server", amount, currency, <<"CHF">>, Null),
                      EdgeConvertToCHF(amount, currency))
    /\ rget' = NoGet
    /\ UNCHANGED <<app, pageVars, now, ratesCache, cacheTimestamp, rcall, gw, ex>>

\* convertCurrency(amount, fromCurrency, toCurrency), lines 786-800;
\* origin is kept for the caller that converts a value back
BeginConvertCurrency(c) ==
    IF AbsentArgs(c.amount, c.from)
    THEN rcall' = Idle /\ rret' = Return(c, Null) /\ rget' = NoGet
    ELSE IF ToUpperCase(c.from[1]) = ToUpperCase(c.to[1])
    THEN /\ rcall' = Idle
         /\ rret' = Return(c, <<Round2(c.amount[1], 1)>>)
         /\ rget' = NoGet
    ELSE StartToCHF(c)

ConvertCurrency(amount, fromCurrency, toCurrency) ==
    /\ app = "rates"
    /\ rcall = Idle
    /\ BeginConvertCurrency(
          Call("convertCurrency", amount, fromCurrency, toCurrency, Null))
    /\ UNCHANGED <<app, pageVars, now, ratesCache, cacheTimestamp, gw, ex>>

\* the caller converts the value it has just got back into the currency it
\* came from: convertCurrency(convertCurrency(a, c1, c2), c2, c1)
ConvertCurrencyBack ==
    /\ app = "rates"
    /\ rcall = Idle
    /\ rret.fn = "convertCurrency"
    /\ rret.origin = Null
    /\ rret.value # Null
    /\ BeginConvertCurrency(
          Call("convertCurrency", rret.value, rret.to, rret.from, rret.amount))
    /\ UNCHANGED <<app, pageVars, now, ratesCache, cacheTimestamp, gw, ex>>

\* convertCurrency, lines 802-810: the rates for the target currency
TargetRates ==
    /\ app = "rates"
    /\ rcall.pc = "gotCHF"
    /\ IF CacheValid(now)
       THEN /\ rget' = Hit
            /\ rcall' = Idle
            /\ rret' = Return(rcall, <<TimesTargetRate(ratesCache[1],
                                  rcall.inCHF[1], ToUpperCase(rcall.to[1]))>>)
       ELSE /\ rget' = Fetching
            /\ rcall' = [rcall EXCEPT !.pc = "target", !.t = now]
            /\ rret' = NoReturn
    /\ UNCHANGED <<app, pageVars, now, ratesCache, cacheTimestamp, gw, ex>>

\* the request of fetchExchangeRates has come back: getExchangeRates, lines
\* 727-735, and then the conversion that was waiting for it
FetchSettles(answer) ==
    /\ app = "rates"
    /\ rcall.pc \in {"toCHF", "target"}
    /\ answer \in ProviderAnswers
    /\ LET fetched == FetchExchangeRates(answer)
           rates == IF fetched # Null THEN fetched[1] ELSE FALLBACK_RATES
       IN /\ IF fetched # Null
             THEN ratesCache' = fetched /\ cacheTimestamp' = rcall.t
             ELSE UNCHANGED <<ratesCache, cacheTimestamp>>
          /\ rget' = [phase |-> IF fetched # Null THEN "fetched"
                                ELSE "fallback",
                      answer |-> answer, table |-> <<rates>>]
          /\ IF rcall.pc = "toCHF"
             THEN GotCHF(rcall, DivideByRate(rates, rcall.amount[1],
                                             ToUpperCase(rcall.from[1])))
             ELSE /\ rcall' = Idle
                  /\ rret' = Return(rcall, <<TimesTargetRate(rates,
                                  rcall.inCHF[1], ToUpperCase(rcall.to[1]))>>)
    /\ UNCHANGED <<app, pageVars, now, gw, ex>>

\* ====================================================================
\* The process-document function (the extraction gateway)
\* ====================================================================
\* One request is followed from its arrival to its response.  A confidence
\* is counted in hundredths.

\* nanoBananaResult.confidence > 0.5
ConfidenceThreshold == 50

\* data.confidence || data.ocr_confidence || 0.9
DefaultConfidence == 90

\* What the OCR service answers: no response, a status outside 2xx, a 200
\* response that is no JSON, or a JSON body with its text and the
\* confidence fields it carries.
OcrBody(text, confidence, ocr_confidence) ==
    [kind |-> "body", text |-> text, confidence |-> confidence,
     ocr_confidence |-> ocr_confidence]

OcrFailure(kind) ==
    [kind |-> kind, text |-> "", confidence |-> Null, ocr_confidence |-> Null]

OcrAnswers ==
    {OcrFailure(k) : k \in {"throws", "non2xx", "unparsable"}}
    \cup {OcrBody(text, c, oc) :
            text \in {"", "ocr text"},
            c \in {Null, <<0>>, <<30>>, <<ConfidenceThreshold>>, <<80>>},
            oc \in {Null, <<30>>}}

\* a JavaScript value that || passes over: undefined or 0
Falsy(x) == x = Null \/ x[1] = 0

\* data.confidence || data.ocr_confidence || 0.9
ConfidenceOf(body) ==
    IF ~Falsy(body.confidence) THEN body.confidence[1]
    ELSE IF ~Falsy(body.ocr_confidence) THEN body.ocr_confidence[1]
    ELSE DefaultConfidence

\* processWithNanoBanana once its request has come back: null, or the text
\* and the confidence
ProcessWithNanoBanana(answer) ==
    IF answer.kind # "body"
    THEN Null
    ELSE <<[text |-> answer.text, confidence |-> ConfidenceOf(answer)]>>

\* if (nanoBananaResult && nanoBananaResult.confidence > 0.5) ocrText = ...
OcrTextOf(result) ==
    IF result # Null /\ result[1].confidence > ConfidenceThreshold
    THEN result[1].text
    ELSE ""

\* What the AI gateway answers: a status outside 2xx, no response, a
\* response that is no JSON, one without content, one whose content is no
\* JSON, or a usable one.
UpstreamAnswers ==
    {"429", "402", "403", "500", "throws", "unparsable", "noContent",
     "notJSON", "ok"}

\* the response of the function: its status and the error text of its body
Response(status, error) == [status |-> status, error |-> error]

\* lines 382-416 and 442-464
ResponseTo(upstream) ==
    CASE upstream = "429" ->
            Response("429", "Rate limit exceeded. Please try again later.")
      [] upstream = "402" ->
            Response("402", "AI credits depleted. Please add more credits.")
      [] upstream \in {"403", "500"} ->
            Response("500", "AI gateway error")
      [] upstream = "throws" -> Response("500", "fetch failed")
      [] upstream = "unparsable" -> Response("500", "Unexpected token")
      [] upstream = "noContent" -> Response("500", "No response from AI")
      [] upstream = "notJSON" -> Response("500", "Invalid AI response format")
      [] upstream = "ok" -> Response("200", "")

NoOcr == OcrFailure("none")

GwIdle ==
    [pc |-> "idle", fileData |-> FALSE, fileType |-> "other",
     ocrKey |-> FALSE, apiKey |-> FALSE, ocr |-> NoOcr, sent |-> FALSE,
     ocrText |-> "", upstream |-> "none", response |-> Response("none", "")]

\* serve: a POST request arrives; lines 120-141, up to the first await
Serve(fileData, fileType, ocrKey, apiKey) ==
    /\ app = "gateway"
    /\ gw.pc \in {"idle", "done"}
    /\ LET req == [GwIdle EXCEPT !.fileData = fileData, !.fileType = fileType,
                                 !.ocrKey = ocrKey, !.apiKey = apiKey]
       IN gw' =
            IF ~fileData
            THEN [req EXCEPT !.pc = "done",
                     !.response = Response("500", "No file data provided")]
            ELSE IF ~apiKey
            THEN [req EXCEPT !.pc = "done",
                     !.response = Response("500",
                                     "LOVABLE_API_KEY is not configured")]
            ELSE IF ~ocrKey \/ fileType = "other"
            THEN [req EXCEPT !.pc = "primary", !.sent = TRUE,
                             !.ocrText = OcrTextOf(Null)]
            ELSE [req EXCEPT !.pc = "ocr"]
    /\ UNCHANGED <<app, pageVars, rateVars, ex>>

\* the OCR request has come back: lines 141-150, and the primary call is
\* made with the prompt built from ocrText
OcrSettles(answer) ==
    /\ app = "gateway"
    /\ gw.pc = "ocr"
    /\ answer \in OcrAnswers
    /\ gw' = [gw EXCEPT !.pc = "primary", !.ocr = answer, !.sent = TRUE,
                        !.ocrText = OcrTextOf(ProcessWithNanoBanana(answer))]
    /\ UNCHANGED <<app, pageVars, rateVars, ex>>

\* the AI gateway has answered: lines 378-464
PrimarySettles(upstream) ==
    /\ app = "gateway"
    /\ gw.pc = "primary"
    /\ upstream \in UpstreamAnswers
    /\ gw' = [gw EXCEPT !.pc = "done", !.upstream = upstream,
                        !.response = ResponseTo(upstream)]
    /\ UNCHANGED <<app, pageVars, rateVars, ex>>

\* ====================================================================
\* One document's extracted data
\* ====================================================================
\* The data of one record is followed from its source (the result the
\* process-document function builds from the model's answer, or the filename
\* fallback) through the conversions of processFiles to the completed
\* record.  Amounts are exact, counted as in the currency converter.

\* a value of the model's JSON answer: the field is missing, null, a number
\* or a string
Missing == [k |-> "undefined", v |-> 0, s |-> ""]

JsonNull == [k |-> "null", v |-> 0, s |-> ""]

Num(v) == [k |-> "number", v |-> v, s |-> ""]

Str(s) == [k |-> "string", v |-> 0, s |-> s]

\* x || null for a number: 0, null and a missing field all give null
NumberOrNull(x) == IF x.k = "number" /\ x.v # 0 THEN <<x.v>> ELSE Null

\* x || null for a string
StringOrNull(x) == IF x.k = "string" /\ x.s # "" THEN <<x.s>> ELSE Null

\* parsed.documentType || 'unknown'
StringOrUnknown(x) == IF x.k = "string" /\ x.s # "" THEN x.s ELSE "unknown"

\* convertToCHF(amount, currency) of the function throws: amount is not
\* null, currency is not null and has no toUpperCase
EdgeConvertThrows(amount, currency) ==
    amount.k # "null" /\ currency.k = "undefined"

\* convertToCHF(amount, currency) of the function as JSON.stringify writes
\* it: a missing amount gives NaN, which is written as null
EdgeResultCHF(amount, currency) ==
    IF amount.k = "null" \/ currency.k = "null" \/ amount.k = "undefined"
    THEN Null
    ELSE EdgeConvertToCHF(<<amount.v>>, <<currency.s>>)

\* the extractedData of a placeholder: every field null, type 'unknown'
NoData ==
    [documentType |-> "unknown", issuer |-> Null, expenseCategory |-> Null,
     totalAmount |-> Null, originalCurrency |-> Null, totalAmountCHF |-> Null,
     vatAmount |-> Null, vatAmountCHF |-> Null,
     netAmount |-> Null, netAmountCHF |-> Null]

\* const result = { documentType, extractedData: { ... } }, lines 418-433
GatewayResult(parsed) ==
    [documentType |-> StringOrUnknown(parsed.documentType),
     issuer |-> StringOrNull(parsed.issuer),
     expenseCategory |-> StringOrNull(parsed.expenseCategory),
     totalAmount |-> NumberOrNull(parsed.totalAmount),
     originalCurrency |-> StringOrNull(parsed.originalCurrency),
     totalAmountCHF |->
        EdgeResultCHF(parsed.totalAmount, parsed.originalCurrency),
     vatAmount |-> NumberOrNull(parsed.vatAmount),
     vatAmountCHF |-> EdgeResultCHF(parsed.vatAmount, parsed.originalCurrency),
     netAmount |-> NumberOrNull(parsed.netAmount),
     netAmountCHF |-> EdgeResultCHF(parsed.netAmount, parsed.originalCurrency)]

\* one of the convertToCHF calls of lines 418-433 throws, and the function
\* answers 500
GatewayThrows(parsed) ==
    \E f \in {"totalAmount", "vatAmount", "netAmount"} :
        EdgeConvertThrows(parsed[f], parsed.originalCurrency)

\* what the model's answer may carry in extractedData
ParsedAmounts ==
    {Missing, JsonNull, Num(0), Num(100 * SubCent), Num(10000 * SubCent)}

ParsedParts == {JsonNull, Num(0), Num(770 * SubCent)}

ParsedCurrencies == {Missing, JsonNull, Str("EUR"), Str("chf"), Str("XYZ")}

Parsed(total, vat, net, currency, texts) ==
    [totalAmount |-> total, vatAmount |-> vat, netAmount |-> net,
     originalCurrency |-> currency,
     documentType |-> IF texts THEN Str("invoice") ELSE Missing,
     issuer |-> IF texts THEN Str("Uber") ELSE JsonNull,
     expenseCategory |-> IF texts THEN Str("travel") ELSE Missing]

\* the tables getExchangeRates can return
RateTables ==
    {FALLBACK_RATES} \cup
    {FetchExchangeRates(answer)[1] :
        answer \in {a \in ProviderAnswers : FetchExchangeRates(a) # Null}}

\* a JavaScript amount that && lets through: not null and not 0
Truthy(amount) == amount # Null /\ amount[1] # 0

\* convertToCHF(amount, currency) of the converter for arguments that are
\* not null, with the table its getExchangeRates call returned
ClientConvertToCHF(rates, amount, currency) ==
    IF ToUpperCase(currency[1]) = "CHF"
    THEN <<Round2(amount[1], 1)>>
    ELSE <<DivideByRate(rates, amount[1], ToUpperCase(currency[1]))>>

\* if (extractedData.totalAmount && extractedData.originalCurrency) { ... }:
\* the CHF field after one of the three blocks of lines 220-239
ConvertedField(data, field, chf, rates) ==
    IF Truthy(data[field]) /\ data.originalCurrency # Null
    THEN ClientConvertToCHF(rates, data[field], data.originalCurrency)
    ELSE data[chf]

\* extractedData as updatedDoc gets it, lines 217-247
ConvertedData(data, r1, r2, r3) ==
    [data EXCEPT
        !.totalAmountCHF = ConvertedField(data, "totalAmount",
                                          "totalAmountCHF", r1),
        !.vatAmountCHF = ConvertedField(data, "vatAmount", "vatAmountCHF", r2),
        !.netAmountCHF = ConvertedField(data, "netAmount", "netAmountCHF", r3)]

ExIdle == [pc |-> "idle", by |-> "none", fileName |-> <<>>, data |-> NoData]

\* ---- the filename fallback (mockProcessDocument)
\* A file name is the sequence of its characters.

lowerLetters == <<"a", "b", "c", "d", "e", "f", "g", "h", "i", "j", "k", "l", "m", "n", "o", "p", "q", "r", "s", "t", "u", "v", "w", "x", "y", "z">>

upperLetters == <<"A", "B", "C", "D", "E", "F", "G", "H", "I", "J", "K", "L", "M", "N", "O", "P", "Q", "R", "S", "T", "U", "V", "W", "X", "Y", "Z">>

digits == <<"0", "1", "2", "3", "4", "5", "6", "7", "8", "9">>

IsDigit(c) == \E i \in DOMAIN digits : digits[i] = c

DigitValue(c) == (CHOOSE i \in DOMAIN digits : digits[i] = c) - 1

\* toLowerCase() and toUpperCase() of one character
LowerChar(c) ==
    IF \E i \in DOMAIN upperLetters : upperLetters[i] = c
    THEN lowerLetters[CHOOSE i \in DOMAIN upperLetters : upperLetters[i] = c]
    ELSE c

UpperChar(c) ==
    IF \E i \in DOMAIN lowerLetters : lowerLetters[i] = c
    THEN upperLetters[CHOOSE i \in DOMAIN lowerLetters : lowerLetters[i] = c]
    ELSE c

\* filename.toLowerCase()
LowerCase(s) == [i \in DOMAIN s |-> LowerChar(s[i])]

\* s.includes(sub)
Includes(s, sub) ==
    \E i \in 0..(Len(s) - Len(sub)) : \A j \in 1..Len(sub) : s[i + j] = sub[j]

\* t occurs in s with its last character at position e
EndsAt(s, e, t) ==
    /\ e >= Len(t)
    /\ e <= Len(s)
    /\ \A k \in 1..Len(t) : s[e - Len(t) + k] = t[k]

\* t occurs in s with its first character at position p
StartsAt(s, p, t) == EndsAt(s, p + Len(t) - 1, t)

\* filename.replace(/\.[^/.]+$/, ''): the last dot and what follows it go,
\* when at least one character follows and none of them is a slash
WithoutExtension(s) ==
    LET dots == {i \in 1..(Len(s) - 1) :
                    /\ s[i] = "."
                    /\ \A j \in (i + 1)..Len(s) : s[j] \notin {".", "/"}}
    IN IF dots = {} THEN s
       ELSE SubSeq(s, 1, (CHOOSE i \in dots : TRUE) - 1)

\* KNOWN_VENDORS: the keys in the order of the table (of its 43 entries the
\* model keeps these four, in their order), and what each stands for
vendorKeys == <<<<"u", "b", "e", "r">>,
               <<"s", "w", "i", "s", "s">>,
               <<"u", "b", "s">>,
               <<"c", "s">>>>

KNOWN_VENDORS ==
    <<[name |-> <<"U", "b", "e", "r">>, category |-> "travel", type |-> "receipt"],
      [name |-> <<"S", "w", "i", "s", "s", " ", "A", "i", "r", "l", "i", "n", "e", "s">>,
       category |-> "travel", type |-> "receipt"],
      [name |-> <<"U", "B", "S">>, category |-> "other", type |-> "bank_statement"],
      [name |-> <<"C", "r", "e", "d", "i", "t", " ", "S", "u", "i", "s", "s", "e">>,
       category |-> "other", type |-> "bank_statement"]>>

\* extractVendorFromFilename: the first key of the table that the lowered
\* name includes, or null
ExtractVendorFromFilename(fileName) ==
    LET hits == {i \in DOMAIN vendorKeys :
                    Includes(LowerCase(fileName), vendorKeys[i])}
    IN IF hits = {} THEN Null
       ELSE <<KNOWN_VENDORS[CHOOSE i \in hits : \A j \in hits : i <= j]>>

\* CURRENCY_PATTERNS, in the order of the table (the entries for the euro
\* and the pound sign are left out)
currencyPatterns ==
    <<[pattern |-> <<"c", "h", "f">>, currency |-> "CHF"],
      [pattern |-> <<"f", "r">>, currency |-> "CHF"],
      [pattern |-> <<"s", "f", "r">>, currency |-> "CHF"],
      [pattern |-> <<"e", "u", "r">>, currency |-> "EUR"],
      [pattern |-> <<"u", "s", "d">>, currency |-> "USD"],
      [pattern |-> <<"$">>, currency |-> "USD"],
      [pattern |-> <<"g", "b", "p">>, currency |-> "GBP"]>>

\* let currency = 'CHF'; for (...) if (cleaned.includes(pattern)) ...
DetectCurrency(cleaned) ==
    LET hits == {i \in DOMAIN currencyPatterns :
                    Includes(cleaned, currencyPatterns[i].pattern)}
    IN IF hits = {} THEN "CHF"
       ELSE currencyPatterns[CHOOSE i \in hits : \A j \in hits : i <= j].currency

\* (?:chf|eur|usd|gbp|fr|sfr|...) of the amount patterns
currencyTokens == {currencyPatterns[i].pattern : i \in DOMAIN currencyPatterns}

\* the end of the run of digits that begins at position j
RunEnd(s, j) ==
    CHOOSE e \in j..Len(s) :
        /\ \A k \in j..e : IsDigit(s[k])
        /\ e = Len(s) \/ ~IsDigit(s[e + 1])

\* (?:[.,]\d{2})? matches behind position e
HasDecimals(s, e) ==
    /\ e + 3 <= Len(s)
    /\ s[e + 1] \in {".", ","}
    /\ IsDigit(s[e + 2])
    /\ IsDigit(s[e + 3])

\* \s* and then one of the tokens, from position p on
TokenFollows(s, p, tokens) ==
    \E w \in 0..(Len(s) - p + 1) :
        /\ \A k \in p..(p + w - 1) : s[k] = " "
        /\ \E t \in tokens : StartsAt(s, p + w, t)

\* one of the tokens and then \s*, up to position j - 1
TokenPrecedes(s, j, tokens) ==
    \E w \in 0..(j - 1) :
        /\ \A k \in (j - w)..(j - 1) : s[k] = " "
        /\ \E t \in tokens : EndsAt(s, j - w - 1, t)

\* the word and then [=_-]?, up to position j - 1
WordPrecedes(s, j, word) ==
    \/ EndsAt(s, j - 1, word)
    \/ j >= 2 /\ s[j - 1] \in {"=", "_", "-"} /\ EndsAt(s, j - 2, word)

\* where the capture (\d+(?:[.,]\d{2})?) of amountPatterns[n] begins in its
\* leftmost match
CaptureStarts(s, n) ==
    {j \in DOMAIN s :
        /\ IsDigit(s[j])
        /\ CASE n = 1 -> TokenPrecedes(s, j, currencyTokens)
             [] n = 2 -> /\ j = 1 \/ ~IsDigit(s[j - 1])
                         /\ LET e == RunEnd(s, j) IN
                            \/ HasDecimals(s, e)
                               /\ TokenFollows(s, e + 4, currencyTokens)
                            \/ TokenFollows(s, e + 1, currencyTokens)
             [] n = 3 -> WordPrecedes(s, j, <<"a", "m", "o", "u", "n", "t">>)
             [] n = 4 -> WordPrecedes(s, j, <<"t", "o", "t", "a", "l">>)
             [] n = 5 -> TRUE}

\* the digits s[j..e] read as a number
RECURSIVE DigitsValue(_, _, _)
DigitsValue(s, j, e) ==
    IF e < j THEN 0 ELSE 10 * DigitsValue(s, j, e - 1) + DigitValue(s[e])

\* parseFloat(match[1].replace(',', '.')) for the match of amountPatterns[n],
\* in cents, when it is > 0 and < 1000000; null when the pattern does not
\* match or the number is turned down
PatternAmount(s, n) ==
    LET starts == CaptureStarts(s, n) IN
    IF starts = {} THEN Null
    ELSE LET j == CHOOSE a \in starts : \A b \in starts : a <= b
             e == RunEnd(s, j)
         IN IF e - j + 1 > 9 \/ DigitsValue(s, j, e) >= 1000000
            THEN Null
            ELSE LET cents ==
                        100 * DigitsValue(s, j, e)
                        + (IF HasDecimals(s, e)
                           THEN DigitsValue(s, e + 2, e + 3) ELSE 0)
                 IN IF cents > 0 THEN <<cents * SubCent>> ELSE Null

\* extractAmountFromFilename: the amount of the first pattern that gives one
ExtractAmountFromFilename(fileName) ==
    LET cleaned == LowerCase(WithoutExtension(fileName))
        hits == {n \in 1..5 : PatternAmount(cleaned, n) # Null}
    IN [amount |-> IF hits = {} THEN Null
                   ELSE PatternAmount(cleaned,
                            CHOOSE n \in hits : \A m \in hits : n <= m),
        currency |-> DetectCurrency(cleaned)]

\* the keywords of lines 626-654, in the order they are tried
typeKeywords ==
    <<[type |-> "bank_statement",
       words |-> {<<"b", "a", "n", "k">>,
                 <<"s", "t", "a", "t", "e", "m", "e", "n", "t">>,
                 <<"a", "c", "c", "o", "u", "n", "t">>}],
      [type |-> "invoice",
       words |-> {<<"i", "n", "v", "o", "i", "c", "e">>,
                 <<"b", "i", "l", "l">>,
                 <<"i", "n", "v">>}],
      [type |-> "receipt",
       words |-> {<<"r", "e", "c", "e", "i", "p", "t">>,
                 <<"t", "i", "c", "k", "e", "t">>,
                 <<"r", "e", "c", "u">>}]>>

categoryKeywords ==
    <<[category |-> "travel",
       words |-> {<<"t", "r", "a", "v", "e", "l">>,
                 <<"h", "o", "t", "e", "l">>,
                 <<"f", "l", "i", "g", "h", "t">>,
                 <<"t", "r", "a", "i", "n">>}],
      [category |-> "meals",
       words |-> {<<"r", "e", "s", "t", "a", "u", "r", "a", "n", "t">>,
                 <<"f", "o", "o", "d">>,
                 <<"m", "e", "a", "l">>,
                 <<"l", "u", "n", "c", "h">>,
                 <<"d", "i", "n", "n", "e", "r">>}],
      [category |-> "utilities",
       words |-> {<<"u", "t", "i", "l", "i", "t", "y">>,
                 <<"e", "l", "e", "c", "t", "r", "i", "c">>,
                 <<"w", "a", "t", "e", "r">>,
                 <<"g", "a", "s">>}],
      [category |-> "software",
       words |-> {<<"s", "o", "f", "t", "w", "a", "r", "e">>,
                 <<"s", "u", "b", "s", "c", "r", "i", "p", "t", "i", "o", "n">>,
                 <<"l", "i", "c", "e", "n", "s", "e">>,
                 <<"s", "a", "a", "s">>}],
      [category |-> "office supplies",
       words |-> {<<"o", "f", "f", "i", "c", "e">>,
                 <<"s", "u", "p", "p", "l", "y">>,
                 <<"e", "q", "u", "i", "p", "m", "e", "n", "t">>}],
      [category |-> "telecommunications",
       words |-> {<<"p", "h", "o", "n", "e">>,
                 <<"m", "o", "b", "i", "l", "e">>,
                 <<"t", "e", "l", "e", "c", "o", "m">>}],
      [category |-> "insurance",
       words |-> {<<"i", "n", "s", "u", "r", "a", "n", "c", "e">>}],
      [category |-> "rent",
       words |-> {<<"r", "e", "n", "t">>,
                 <<"l", "e", "a", "s", "e">>}]>>

\* the first entry of the keyword table one of whose words the name includes
KeywordHits(table, lowered) ==
    {i \in DOMAIN table : \E w \in table[i].words : Includes(lowered, w)}

FirstOf(hits) == CHOOSE i \in hits : \A j \in hits : i <= j

\* lines 624-633
DocumentTypeOf(vendorInfo, lowered) ==
    IF vendorInfo # Null THEN vendorInfo[1].type
    ELSE IF KeywordHits(typeKeywords, lowered) = {} THEN "unknown"
    ELSE typeKeywords[FirstOf(KeywordHits(typeKeywords, lowered))].type

\* lines 636-655
ExpenseCategoryOf(vendorInfo, lowered) ==
    IF vendorInfo # Null THEN <<vendorInfo[1].category>>
    ELSE IF KeywordHits(categoryKeywords, lowered) = {} THEN Null
    ELSE <<categoryKeywords[
              FirstOf(KeywordHits(categoryKeywords, lowered))].category>>

\* split(/[_\-\s]+/): a character that separates name parts
IsSeparator(c) == c \in {"_", "-", " "}

PartEnd(s, i) ==
    CHOOSE e \in i..Len(s) :
        /\ \A k \in i..e : ~IsSeparator(s[k])
        /\ e = Len(s) \/ IsSeparator(s[e + 1])

\* where the name parts that may serve as issuer begin: longer than 2
\* characters and not digits only
MeaningfulParts(s) ==
    {i \in DOMAIN s :
        /\ ~IsSeparator(s[i])
        /\ i = 1 \/ IsSeparator(s[i - 1])
        /\ PartEnd(s, i) - i + 1 > 2
        /\ \E k \in i..PartEnd(s, i) : ~IsDigit(s[k])}

\* part.charAt(0).toUpperCase() + part.slice(1).toLowerCase()
Capitalized(part) ==
    [k \in DOMAIN part |->
        IF k = 1 THEN UpperChar(part[k]) ELSE LowerChar(part[k])]

\* lines 658-670: the vendor's name, or the first meaningful part of the
\* file name, or null
IssuerOf(vendorInfo, fileName) ==
    IF vendorInfo # Null THEN vendorInfo[1].name
    ELSE LET s == WithoutExtension(fileName)
             parts == MeaningfulParts(s)
         IN IF parts = {} THEN Null
            ELSE Capitalized(SubSeq(s, FirstOf(parts),
                                    PartEnd(s, FirstOf(parts))))

\* CURRENCY_RATES, its entries CHF: 1, EUR: 0.95 and JPY: 0.0064
CURRENCY_RATES == FALLBACK_RATES

\* amount ? Math.round((amount / rate) * 100) / 100 : null, with
\* rate = CURRENCY_RATES[currency] || 1
MockCHF(amount, currency) ==
    IF ~Truthy(amount) THEN Null
    ELSE IF NoRate(CURRENCY_RATES, currency)
    THEN <<Round2(amount[1], 1)>>
    ELSE <<Round2(amount[1] * CURRENCY_RATES[currency].d,
                  CURRENCY_RATES[currency].n)>>

\* const vatRate = 0.077, in thousandths
vatRate == 77

\* amount ? Math.round(amount * vatRate * 100) / 100 : null
VatAmountOf(amount) ==
    IF Truthy(amount) THEN <<Round2(amount[1] * vatRate, 1000)>> ELSE Null

\* amount && vatAmount ? Math.round((amount - vatAmount) * 100) / 100 : null
NetAmountOf(amount, vatAmount) ==
    IF Truthy(amount) /\ Truthy(vatAmount)
    THEN <<Round2(amount[1] - vatAmount[1], 1)>>
    ELSE Null

\* mockProcessDocument(file, base64): documentType and extractedData
MockProcessDocument(fileName) ==
    LET lowered == LowerCase(fileName)
        found == ExtractAmountFromFilename(fileName)
        vendorInfo == ExtractVendorFromFilename(fileName)
        vatAmount == VatAmountOf(found.amount)
        netAmount == NetAmountOf(found.amount, vatAmount)
    IN [documentType |-> DocumentTypeOf(vendorInfo, lowered),
        issuer |-> IssuerOf(vendorInfo, fileName),
        expenseCategory |-> ExpenseCategoryOf(vendorInfo, lowered),
        totalAmount |-> found.amount,
        originalCurrency |-> <<found.currency>>,
        totalAmountCHF |-> MockCHF(found.amount, found.currency),
        vatAmount |-> vatAmount,
        vatAmountCHF |-> MockCHF(vatAmount, found.currency),
        netAmount |-> netAmount,
        netAmountCHF |-> MockCHF(netAmount, found.currency)]

\* the names of the files handed over
FileNames ==
    {<<"i", "n", "v", "o", "i", "c", "e", "_", "U", "B", "E", "R", "_", "2", "0", "2", "4", "-", "0", "3", "-", "1", "5", "_", "C", "H", "F", "4", "5", ".", "9", "0", ".", "p", "d", "f">>,
     <<"r", "e", "c", "e", "i", "p", "t", "_", "0", ".", "0", "5", ".", "p", "d", "f">>,
     <<"s", "c", "a", "n", ".", "p", "d", "f">>,
     <<"0", "0", "1", ".", "p", "d", "f">>,
     <<"h", "o", "t", "e", "l", "_", "E", "U", "R", "1", "0", "0", ".", "p", "d", "f">>,
     <<"1", "2", ".", "5", "0", "e", "u", "r", ".", "p", "d", "f">>,
     <<"d", "o", "c", "s", ".", "p", "d", "f">>}

\* the fallback answers for the file: line 213 of processFiles
ExtractByFilename(fileName) ==
    /\ app = "extract"
    /\ ex.pc # "extracted"
    /\ ex' = [pc |-> "extracted", by |-> "filename", fileName |-> fileName,
              data |-> MockProcessDocument(fileName)]
    /\ UNCHANGED <<app, pageVars, rateVars, gw>>

\* the process-document function answers for the file: lines 401-437 of the
\* function, then lines 174-183 of processFiles
ExtractByGateway(parsed) ==
    /\ app = "extract"
    /\ ex.pc # "extracted"
    /\ ex' = IF GatewayThrows(parsed)
             THEN [pc |-> "failed", by |-> "gateway", fileName |-> <<>>,
                   data |-> NoData]
             ELSE [pc |-> "extracted", by |-> "gateway", fileName |-> <<>>,
                   data |-> GatewayResult(parsed)]
    /\ UNCHANGED <<app, pageVars, rateVars, gw>>

\* the three conversions have come back and the record is completed: lines
\* 217-255
CompleteRecord(r1, r2, r3) ==
    /\ app = "extract"
    /\ ex.pc = "extracted"
    /\ ex' = [ex EXCEPT !.pc = "completed",
                        !.data = ConvertedData(ex.data, r1, r2, r3)]
    /\ UNCHANGED <<app, pageVars, rateVars, gw>>

\* ====================================================================
\* The two pages as one state machine
\* ====================================================================

Init ==
    /\ app \in {"hook", "component"}
    /\ isAdmin \in (IF app = "hook" THEN BOOLEAN ELSE {FALSE})
    /\ documents = <<>>
    /\ stored = Absent
    /\ rows = <<>>
    /\ isProcessing = FALSE
    /\ runs = <<>>
    /\ nextId = 1
    /\ delOps = {}
    /\ clearOps = 0
    /\ loadPending = FALSE
    /\ cDocuments = <<>>
    /\ cIsProcessing = FALSE
    /\ stopProcessingRef = FALSE
    /\ cRuns = <<>>
    /\ cNextId = 1
    /\ lastOp = None
    /\ deleted = {}
    /\ removed = FALSE
    /\ now = CACHE_DURATION
    /\ ratesCache = Null
    /\ cacheTimestamp = 0
    /\ rcall = Idle
    /\ rget = NoGet
    /\ rret = NoReturn
    /\ gw = GwIdle
    /\ ex = ExIdle

Next ==
    \/ \E n \in 1..MaxBatch : ProcessFiles(n)
    \/ \E i \in DOMAIN runs, e \in Extractions : ExtractionSucceeds(i, e)
    \/ \E i \in DOMAIN runs, e \in Extractions : ExtractionFails(i, e)
    \/ \E i \in DOMAIN runs, m \in MirrorAnswers : MirrorSettles(i, m)
    \/ \E docId \in 1..MaxDocs : DeleteDocument(docId)
    \/ \E docId \in delOps, m \in MirrorAnswers : DeleteSettles(docId, m)
    \/ ClearDocuments
    \/ \E m \in MirrorAnswers : ClearSettles(m)
    \/ RefreshDocuments
    \/ \E answer \in {"ok", "noSession", "error"} : LoadSettles(answer)
    \/ \E n \in 1..MaxBatch : HandleFileUpload(n)
    \/ ProcessAll
    \/ \E i \in DOMAIN cRuns : AnalysisSucceeds(i)
    \/ \E i \in DOMAIN cRuns, message \in ErrorMessages : AnalysisFails(i, message)
    \/ HandleStop

Spec == Init /\ [][Next]_vars

\* ---- the two pages when every call that is awaited comes back
\* the extraction call of a run resolves or rejects
ExtractionReturns ==
    \E i \in DOMAIN runs, e \in Extractions :
        ExtractionSucceeds(i, e) \/ ExtractionFails(i, e)

\* the mirror calls behind a completion come back
MirrorReturns ==
    \E i \in DOMAIN runs, m \in MirrorAnswers : MirrorSettles(i, m)

\* analyzeFinancialDocument resolves or rejects
AnalysisReturns ==
    \E i \in DOMAIN cRuns :
        \/ AnalysisSucceeds(i)
        \/ \E message \in ErrorMessages : AnalysisFails(i, message)

SpecLive ==
    /\ Init
    /\ [][Next]_vars
    /\ WF_vars(ExtractionReturns)
    /\ WF_vars(MirrorReturns)
    /\ WF_vars(AnalysisReturns)

\* ---- the currency converter on its own
InitRates ==
    /\ app = "rates"
    /\ isAdmin = FALSE
    /\ documents = <<>>
    /\ stored = Absent
    /\ rows = <<>>
    /\ isProcessing = FALSE
    /\ runs = <<>>
    /\ nextId = 1
    /\ delOps = {}
    /\ clearOps = 0
    /\ loadPending = FALSE
    /\ cDocuments = <<>>
    /\ cIsProcessing = FALSE
    /\ stopProcessingRef = FALSE
    /\ cRuns = <<>>
    /\ cNextId = 1
    /\ lastOp = None
    /\ deleted = {}
    /\ removed = FALSE
    /\ now = CACHE_DURATION
    /\ ratesCache = Null
    /\ cacheTimestamp = 0
    /\ rcall = Idle
    /\ rget = NoGet
    /\ rret = NoReturn
    /\ gw = GwIdle
    /\ ex = ExIdle

NextRates ==
    \/ ClockTick
    \/ \E amount \in Amounts, c \in CurrencyArgs : ConvertToCHF(amount, c)
    \/ \E amount \in Amounts, c \in CurrencyArgs : ServerConvertToCHF(amount, c)
    \/ \E amount \in Amounts, c1 \in CurrencyArgs, c2 \in CurrencyArgs \ {Null} :
          ConvertCurrency(amount, c1, c2)
    \/ ConvertCurrencyBack
    \/ TargetRates
    \/ \E answer \in ProviderAnswers : FetchSettles(answer)

SpecRates == InitRates /\ [][NextRates]_vars

\* ---- the process-document function on its own
InitGateway ==
    /\ app = "gateway"
    /\ isAdmin = FALSE
    /\ documents = <<>>
    /\ stored = Absent
    /\ rows = <<>>
    /\ isProcessing = FALSE
    /\ runs = <<>>
    /\ nextId = 1
    /\ delOps = {}
    /\ clearOps = 0
    /\ loadPending = FALSE
    /\ cDocuments = <<>>
    /\ cIsProcessing = FALSE
    /\ stopProcessingRef = FALSE
    /\ cRuns = <<>>
    /\ cNextId = 1
    /\ lastOp = None
    /\ deleted = {}
    /\ removed = FALSE
    /\ now = CACHE_DURATION
    /\ ratesCache = Null
    /\ cacheTimestamp = 0
    /\ rcall = Idle
    /\ rget = NoGet
    /\ rret = NoReturn
    /\ gw = GwIdle
    /\ ex = ExIdle

NextGateway ==
    \/ \E fileData \in BOOLEAN, fileType \in {"image", "pdf", "other"},
          ocrKey \in BOOLEAN, apiKey \in BOOLEAN :
          Serve(fileData, fileType, ocrKey, apiKey)
    \/ \E answer \in OcrAnswers : OcrSettles(answer)
    \/ \E upstream \in UpstreamAnswers : PrimarySettles(upstream)

SpecGateway == InitGateway /\ [][NextGateway]_vars

\* ---- one document's extracted data on its own
InitExtract ==
    /\ app = "extract"
    /\ isAdmin = FALSE
    /\ documents = <<>>
    /\ stored = Absent
    /\ rows = <<>>
    /\ isProcessing = FALSE
    /\ runs = <<>>
    /\ nextId = 1
    /\ delOps = {}
    /\ clearOps = 0
    /\ loadPending = FALSE
    /\ cDocuments = <<>>
    /\ cIsProcessing = FALSE
    /\ stopProcessingRef = FALSE
    /\ cRuns = <<>>
    /\ cNextId = 1
    /\ lastOp = None
    /\ deleted = {}
    /\ removed = FALSE
    /\ now = CACHE_DURATION
    /\ ratesCache = Null
    /\ cacheTimestamp = 0
    /\ rcall = Idle
    /\ rget = NoGet
    /\ rret = NoReturn
    /\ gw = GwIdle
    /\ ex = ExIdle

NextExtract ==
    \/ \E total \in ParsedAmounts, vat \in ParsedParts, net \in ParsedParts,
          currency \in ParsedCurrencies, texts \in BOOLEAN :
          ExtractByGateway(Parsed(total, vat, net, currency, texts))
    \/ \E fileName \in FileNames : ExtractByFilename(fileName)
    \/ \E r1 \in RateTables, r2 \in RateTables, r3 \in RateTables :
          CompleteRecord(r1, r2, r3)

SpecExtract == InitExtract /\ [][NextExtract]_vars

\* ====================================================================
\* Properties
\* ====================================================================

\* the records of docs created from id first on, in list order
NewRecords(docs, first) == SelectSeq(docs, LAMBDA d : d.id >= first)

\* docs holds exactly n records from id first on, in creation order, all
\* with the given status
Queued(docs, first, n, status) ==
    LET new == NewRecords(docs, first) IN
    /\ Len(new) = n
    /\ \A j \in 1..n : new[j].id = first + j - 1 /\ new[j].status = status

\* runs whose extraction call is in flight
Extracting == {i \in DOMAIN runs : runs[i].pc = "extract"}

\* records whose analysis call is in flight
Analysing == {cRuns[i].pending[cRuns[i].idx] : i \in DOMAIN cRuns}

C4_StopStartsNothing ==
    [][(stopProcessingRef /\ cRuns # <<>>) =>
          /\ Analysing' \subseteq Analysing
          /\ \A j \in DOMAIN cDocuments :
                cDocuments[j].id \notin Analysing =>
                    cDocuments'[j] = cDocuments[j]]_vars

\* a stopped run has ended and left the second record of its queue Pending
C4_Witness ==
    /\ stopProcessingRef
    /\ cRuns = <<>>
    /\ lastOp.op = "analysed" /\ lastOp.id = 1
    /\ Len(cDocuments) = 2
    /\ cDocuments[2].status = "pending"

\* C5: the record in flight ends Completed when its analysis succeeds and
\* Error when it fails, whether or not a stop was requested meanwhile.
C5_StopKeepsOutcome ==
    lastOp.op = "analysed" =>
        StatusOf(cDocuments, lastOp.id) =
            IF lastOp.result = "ok" THEN "completed" ELSE "error"

\* an analysis has succeeded after the stop request and its record is Completed
C5_Witness ==
    /\ lastOp.op = "analysed" /\ lastOp.result = "ok"
    /\ stopProcessingRef
    /\ StatusOf(cDocuments, lastOp.id) = "completed"

\* C6: a failure other than quota exhaustion turns that record, and no other,
\* into Error with a non-empty message, and the run goes on to the next file.
C6_FailureContinues ==
    [][/\ (lastOp'.op = "error" /\ lastOp'.result # "402") =>
             \A i \in Extracting :
                 runs[i].id = lastOp'.id =>
                     LET r == runs[i] IN
                     /\ r.id \in Ids(documents) =>
                           /\ StatusOf(documents', r.id) = "error"
                           /\ DocOf(documents', r.id).errorMessage
                                 \notin {"", Undefined}
                     /\ \A o \in Ids(documents) \ {r.id} :
                           DocOf(documents', o) = DocOf(documents, o)
                     /\ IF r.k < r.n
                        THEN /\ runs'[i].k = r.k + 1
                             /\ runs'[i].pc = "extract"
                             /\ StatusOf(documents', runs'[i].id) = "processing"
                        ELSE runs' = <<>> /\ ~isProcessing'
       /\ (lastOp'.op = "analysed" /\ lastOp'.result = "fail") =>
             \A i \in DOMAIN cRuns :
                 cRuns[i].pending[cRuns[i].idx] = lastOp'.id =>
                     LET r == cRuns[i]
                         id == r.pending[r.idx]
                         more == ~stopProcessingRef /\ r.idx < Len(r.pending)
                     IN
                     /\ StatusOf(cDocuments', id) = "error"
                     /\ DocOf(cDocuments', id).error \notin {"", Undefined}
                     /\ \A o \in Ids(cDocuments) \ {id} :
                           \/ DocOf(cDocuments', o) = DocOf(cDocuments, o)
                           \/ more /\ o = r.pending[r.idx + 1]
                     /\ more =>
                           /\ cRuns'[i].idx = r.idx + 1
                           /\ StatusOf(cDocuments', r.pending[r.idx + 1])
                                 = "processing"]_vars

\* the first file of a batch has failed with a server error, its record is
\* Error, and the second file's extraction is in flight
C6_Witness ==
    /\ lastOp.op = "error" /\ lastOp.result = "500"
    /\ StatusOf(documents, lastOp.id) = "error"
    /\ \E i \in Extracting : runs[i].k = 2 /\ runs[i].id = lastOp.id + 1

\* C7: a quota failure (402) halts the batch: nothing is started for the
\* files behind it and the processor is idle again.
C7_QuotaHalts ==
    /\ (lastOp.op = "error" /\ lastOp.result = "402") =>
          runs = <<>> /\ ~isProcessing
    /\ (lastOp.op = "analysed" /\ lastOp.result = "402") =>
          cRuns = <<>> /\ ~cIsProcessing

C9_MirrorFailureKeepsLocal ==
    [][/\ (lastOp'.op = "mirror" /\ lastOp'.remote = "fail") =>
             \A i \in DOMAIN runs :
                 (runs[i].pc = "mirror" /\ runs[i].id = lastOp'.id) =>
                     LET r == runs[i] IN
                     /\ \A o \in Ids(documents) :
                           DocOf(documents', o) = DocOf(documents, o)
                     /\ StatusOf(documents', r.id) \in {"completed", "absent"}
                     /\ StatusOf(SnapshotDocs(stored'), r.id)
                           \in {"completed", "absent"}
                     /\ IF r.k < r.n
                        THEN /\ runs'[i].k = r.k + 1
                             /\ runs'[i].pc = "extract"
                        ELSE runs' = <<>> /\ ~isProcessing'
       /\ (lastOp'.op = "delete" /\ lastOp'.remote = "fail") =>
             /\ lastOp'.id \notin Ids(documents')
             /\ lastOp'.id \notin Ids(SnapshotDocs(stored'))
             /\ \A o \in Ids(documents) \ {lastOp'.id} :
                   DocOf(documents', o) = DocOf(documents, o)
       /\ (lastOp'.op = "clear" /\ lastOp'.remote = "fail") =>
             documents' = <<>> /\ SnapshotDocs(stored') = <<>>]_vars

\* the mirror write of the first file has failed, its record is still
\* Completed here and in the snapshot, and the second file is in flight
C9_Witness ==
    /\ lastOp.op = "mirror" /\ lastOp.remote = "fail"
    /\ StatusOf(documents, lastOp.id) = "completed"
    /\ StatusOf(SnapshotDocs(stored), lastOp.id) = "completed"
    /\ \E i \in Extracting : runs[i].k = 2

\* C10: once a deletion has reached the mirror and every run and call has
\* ended, the deleted record is in none of the three stores.
C10_DeletedEverywhere ==
    (runs = <<>> /\ delOps = {} /\ clearOps = 0 /\ ~loadPending) =>
        \A id \in deleted :
            /\ id \notin Ids(documents)
            /\ id \notin Ids(SnapshotDocs(stored))
            /\ id \notin Ids(rows)

\* C11: clearDocuments is idempotent: after the first call and after a second
\* call made right behind it the collection and the snapshot are empty, the
\* second call changes neither, and each call resolves, whatever the mirror
\* answers.
C11_ClearIdempotent ==
    [][lastOp'.op = "clear" =>
          /\ documents' = <<>>
          /\ SnapshotDocs(stored') = <<>>
          /\ lastOp'.result \in {"first", "again"}
          /\ lastOp'.result = "again" =>
                documents' = documents /\ stored' = stored]_vars

\* a second clearDocuments has completed right behind the first, while a
\* file of a batch is still being extracted
C11_Witness ==
    /\ lastOp.op = "clear" /\ lastOp.result = "again"
    /\ Extracting # {}
    /\ documents = <<>> /\ stored = Absent

\* how many records of docs carry the id
Count(docs, id) == Cardinality({j \in DOMAIN docs : docs[j].id = id})

\* C12: when no record has been deleted and every run and call has ended,
\* each submitted file has exactly one record: never two in the collection,
\* and one is kept in the collection, the snapshot or the mirror.
C12_OneRecordPerFile ==
    /\ (~removed /\ runs = <<>> /\ ~loadPending) =>
          \A id \in 1..(nextId - 1) :
              /\ Count(documents, id) <= 1
              /\ id \in Ids(documents) \cup Ids(SnapshotDocs(stored))
                        \cup Ids(rows)
    /\ \A id \in 1..(cNextId - 1) : Count(cDocuments, id) = 1

\* a step in which a conversion calls getExchangeRates
GetRatesCalled ==
    /\ now' = now
    /\ rcall.pc \in {"none", "gotCHF"}
    /\ rget'.phase \in {"hit", "fetching"}

\* C13: after a successful live fetch by a call that read the clock at t
\* (cacheTimestamp = t), every getExchangeRates call made before t + 1 hour
\* returns the cached table, which is still the fetched one, and sends no
\* request; a call at or after t + 1 hour sends one.
C13_CacheWindow ==
    [][/\ GetRatesCalled =>
             IF ratesCache # Null /\ now < cacheTimestamp + CACHE_DURATION
             THEN /\ rget'.phase = "hit"
                  /\ rget'.table = ratesCache
                  /\ rcall'.pc \notin {"toCHF", "target"}
                  /\ ratesCache' = ratesCache
                  /\ cacheTimestamp' = cacheTimestamp
             ELSE /\ rget'.phase = "fetching"
                  /\ rcall'.pc \in {"toCHF", "target"}
                  /\ rcall'.t = now
       /\ (ratesCache' # ratesCache \/ cacheTimestamp' # cacheTimestamp) =>
             /\ rget'.phase = "fetched"
             /\ ratesCache' = rget'.table
             /\ cacheTimestamp' = rcall.t]_vars

\* a conversion is answered from the cache one tick before the window of a
\* fetched table ends
C13_Witness ==
    /\ rget.phase = "hit"
    /\ rret.fn = "convertToCHF"
    /\ now > cacheTimestamp
    /\ now = cacheTimestamp + CACHE_DURATION - Tick

\* C14: when the live refresh fails in any way, getExchangeRates returns
\* FALLBACK_RATES and nothing is thrown.
C14_FallbackOnFailure ==
    rget.answer \in FailedAnswers =>
        rget.table = <<FALLBACK_RATES>> /\ ~rret.threw

UnknownCurrency(c) ==
    /\ ToUpperCase(c) \notin DOMAIN FALLBACK_RATES
    /\ \A answer \in ProviderAnswers :
          FetchExchangeRates(answer) # Null =>
              ToUpperCase(c) \notin DOMAIN FetchExchangeRates(answer)[1]

\* C16 as stated: for a currency unknown to every table convertToCHF returns
\* the amount unchanged.
C16_UnknownUnchanged ==
    (/\ rret.fn = "convertToCHF"
     /\ rret.amount # Null /\ rret.from # Null
     /\ UnknownCurrency(rret.from[1])) =>
        rret.value = rret.amount /\ ~rret.threw

\* C16 amended: for a currency unknown to every table convertToCHF returns
\* the amount rounded to 2 decimals, a half going up (so an amount of at most
\* 2 decimals comes back unchanged, 100 as 100), never null and never an
\* exception.
C16_UnknownRounded ==
    (/\ rret.fn = "convertToCHF"
     /\ rret.amount # Null /\ rret.from # Null
     /\ UnknownCurrency(rret.from[1])) =>
        /\ rret.value = <<Round2(rret.amount[1], 1)>>
        /\ rret.amount[1] % SubCent = 0 => rret.value = rret.amount
        /\ ~rret.threw

\* convertToCHF(100, "XYZ") has looked XYZ up in a fetched table and
\* returned 100
C16_Witness ==
    /\ rret.fn = "convertToCHF"
    /\ rret.from = <<"XYZ">>
    /\ rret.amount = <<10000 * SubCent>>
    /\ rret.value = <<10000 * SubCent>>
    /\ rget.phase = "fetched"

\* C17: for two currencies of the rate table, converting an amount and
\* converting the result back gives the amount again up to one cent (here:
\* with FALLBACK_RATES used throughout).
C17_RoundTrip ==
    (/\ rret.fn = "convertCurrency"
     /\ rret.origin # Null /\ rret.value # Null
     /\ ratesCache = Null
     /\ ToUpperCase(rret.from[1]) \in DOMAIN FALLBACK_RATES
     /\ ToUpperCase(rret.to[1]) \in DOMAIN FALLBACK_RATES) =>
        /\ rret.value[1] - rret.origin[1] <= SubCent
        /\ rret.origin[1] - rret.value[1] <= SubCent

\* C20: the filename fallback (mockProcessDocument) completes a record only
\* when the extraction backend could not be reached at all; a document whose
\* remote call came back with an error response is not completed by it.
C20_NoFallbackAfterFailure ==
    (lastOp.op = "complete" /\ lastOp.result = "mock") =>
        lastOp.remote = "unreachable"

\* the confidence the OCR body reports, if it reports one
Reported(body) ==
    IF body.confidence # Null THEN body.confidence ELSE body.ocr_confidence

\* the OCR step gave nothing usable: not configured, failed, or a reported
\* confidence in [0, 0.5)
OcrUnusable ==
    \/ ~gw.ocrKey
    \/ gw.ocr.kind \in {"throws", "non2xx", "unparsable"}
    \/ /\ gw.ocr.kind = "body"
       /\ Reported(gw.ocr) # Null
       /\ Reported(gw.ocr)[1] < ConfidenceThreshold

\* C18: when the OCR step is not configured, fails or reports a confidence
\* in [0, 0.5), the primary call is made all the same and gets no OCR text.
C18_OcrAdditive ==
    (/\ gw.fileData /\ gw.apiKey
     /\ gw.pc \in {"primary", "done"}
     /\ OcrUnusable) =>
        gw.sent /\ gw.ocrText = ""

\* the class a caller reads from the status of the response
ClassOf(status) ==
    CASE status = "429" -> "rateLimited"
      [] status \in {"402", "403"} -> "quota"
      [] status = "200" -> "ok"
      [] OTHER -> "generic"

\* C19: an upstream 429 is reported as rate-limited, an upstream 402 or 403
\* as quota-exhausted, every other upstream failure as a generic failure,
\* each class by a status of its own.
C19_StatusClasses ==
    (gw.pc = "done" /\ gw.sent /\ gw.upstream # "ok") =>
        ClassOf(gw.response.status) =
            CASE gw.upstream = "429" -> "rateLimited"
              [] gw.upstream \in {"402", "403"} -> "quota"
              [] OTHER -> "generic"

\* C21: in the data of every completed record, each of totalAmountCHF,
\* vatAmountCHF and netAmountCHF is non-null only if its original amount is
\* non-null, whatever the extraction gave, amounts of 0 included.
C21_CHFNeedsOriginal ==
    ex.pc = "completed" =>
        /\ ex.data.totalAmountCHF # Null => ex.data.totalAmount # Null
        /\ ex.data.vatAmountCHF # Null => ex.data.vatAmount # Null
        /\ ex.data.netAmountCHF # Null => ex.data.netAmount # Null

\* the records of docs that carry an error text
WithMessage(docs, field) ==
    {i \in DOMAIN docs : docs[i][field] # Undefined}

\* C22: a record carries an error text only while its status is Error:
\* Processing and Completed records have none, a record that is run again
\* after a failure included, in the collection, the snapshot and the mirror.
C22_MessageOnlyOnError ==
    /\ \A i \in WithMessage(documents, "errorMessage") :
          documents[i].status = "error"
    /\ \A i \in WithMessage(SnapshotDocs(stored), "errorMessage") :
          SnapshotDocs(stored)[i].status = "error"
    /\ \A i \in WithMessage(rows, "errorMessage") : rows[i].status = "error"
    /\ \A i \in WithMessage(cDocuments, "error") :
          cDocuments[i].status = "error"

\* a record that failed has been taken up again by processAll and is
\* Processing without an error text, next to a record that is still Error
C22_Witness ==
    /\ lastOp.op = "processAll" /\ lastOp.result = "error"
    /\ StatusOf(cDocuments, lastOp.id) = "processing"
    /\ DocOf(cDocuments, lastOp.id).error = Undefined
    /\ \E i \in WithMessage(cDocuments, "error") :
          cDocuments[i].status = "error"

\* C23: in the filename fallback, when a total t is derived (0 < t <
\* 1,000,000, whole cents), vatAmount = round(0.077 * t, 2) and netAmount =
\* t - vatAmount, both non-null; when no total is derived both are null.
C23_VatAndNet ==
    ex.by = "filename" =>
        IF ex.data.totalAmount # Null
        THEN LET t == ex.data.totalAmount[1] IN
             /\ t > 0 /\ t < 1000000 * 100 * SubCent /\ t % SubCent = 0
             /\ ex.data.vatAmount = <<Round2(t * vatRate, 1000)>>
             /\ ex.data.netAmount = <<t - Round2(t * vatRate, 1000)>>
        ELSE ex.data.vatAmount = Null /\ ex.data.netAmount = Null

\* C24: in the filename fallback the issuer is null when the name includes
\* no key of the vendor table, and documentType and expenseCategory have a
\* value only when the vendor table or one of their keywords gives it.
C24_NothingMadeUp ==
    ex.by = "filename" =>
        LET lowered == LowerCase(ex.fileName)
            known == \E i \in DOMAIN vendorKeys :
                        Includes(lowered, vendorKeys[i])
        IN /\ ~known => ex.data.issuer = Null
           /\ (~known /\ KeywordHits(typeKeywords, lowered) = {}) =>
                 ex.data.documentType = "unknown"
           /\ (~known /\ KeywordHits(categoryKeywords, lowered) = {}) =>
                 ex.data.expenseCategory = Null

\* every record of docs but those of the set except is in docs2, unchanged
Kept(docs, docs2, except) ==
    \A o \in Ids(docs) \ except :
        o \in Ids(docs2) /\ DocOf(docs2, o) = DocOf(docs, o)

\* C25: however the placeholder inserts and the completion and error
\* updates of a run interleave with deleteDocument calls on other ids, the
\* step for id X (insert, update, mirror write or removal) leaves every
\* record with another id in the collection as it was, earlier updates
\* included, and the snapshot written with it holds the same records; in
\* processAll the only other record touched is the next one to be started.
C25_OtherRecordsKept ==
    [][/\ lastOp'.op \in {"submit", "complete", "error", "delete"} =>
             /\ Kept(documents, documents', {lastOp'.id})
             /\ SnapshotDocs(stored') = documents'
       /\ lastOp'.op = "mirror" => Kept(documents, documents', {})
       /\ lastOp'.op = "analysed" =>
             \A o \in Ids(cDocuments) \ {lastOp'.id} :
                 \/ DocOf(cDocuments', o) = DocOf(cDocuments, o)
                 \/ /\ Analysing' = {o}
                    /\ cDocuments' = MarkProcessing(cDocuments', o)
                    /\ DocOf(cDocuments, o).status \in {"pending", "error"}]_vars

\* the second record has been completed while a deleteDocument call for
\* the first one awaits the mirror, and the first one still has its Error
C25_Witness ==
    /\ lastOp.op = "complete" /\ lastOp.id = 2
    /\ delOps = {1}
    /\ StatusOf(documents, 1) = "error"
    /\ StatusOf(documents, 2) = "completed"

\* C26: when the record of the file in flight has been removed from the
\* collection (deleteDocument or clearDocuments) before its extraction
\* ends, the completion or error update for that id brings it back neither
\* in the collection nor in the snapshot: the collection keeps the records
\* it had (the run may add the placeholder of its next file), and the
\* snapshot written with the update holds the collection's records.
C26_NotRecreated ==
    [][(/\ lastOp'.op \in {"complete", "error"}
        /\ lastOp'.id \notin Ids(documents)) =>
          /\ lastOp'.id \notin Ids(documents')
          /\ lastOp'.id \notin Ids(SnapshotDocs(stored'))
          /\ Kept(documents, documents', {})
          /\ \A o \in Ids(documents') \ Ids(documents) :
                o = nextId /\ DocOf(documents', o) = NewDoc(o)
          /\ SnapshotDocs(stored') = documents']_vars

\* the extraction of a file has ended well after deleteDocument had removed
\* its record here and in the mirror, and the record has not come back
C26_Witness ==
    /\ lastOp.op = "complete"
    /\ lastOp.id \in deleted
    /\ lastOp.id \notin Ids(documents)
    /\ lastOp.id \notin Ids(SnapshotDocs(stored))
    /\ stored.present

\* a batch run is under way
Running == isProcessing \/ cIsProcessing \/ runs # <<>> \/ cRuns # <<>>

\* C27: when every awaited call comes back, every batch run that has
\* started ends and clears the running flag, whether its extractions
\* succeed or fail and whether or not it is stopped.
C27_RunEnds == Running ~> ~Running

\* a run of two files has ended and the flag is cleared: the first file
\* failed and the second one was completed
C27_Witness ==
    /\ ~Running
    /\ lastOp.op \in {"complete", "mirror"} /\ lastOp.id = 2
    /\ StatusOf(documents, 1) = "error"
    /\ StatusOf(documents, 2) = "completed"

C29_OnlyRemovalsRemove ==
    [][\A id \in Ids(documents) \cap Ids(SnapshotDocs(stored)) :
          id \notin Ids(documents') => lastOp'.op \in {"delete", "clear"}]_vars

\* C30: a stop request does not carry over: processAll clears the stop
\* signal when it starts, so a run that starts after a stopped one takes up
\* every Pending and Error record, and no Completed one, begins with the
\* first of them, and, unless it is stopped itself, ends only when it has
\* started them all.
C30_StopDoesNotCarryOver ==
    [][/\ lastOp'.op = "processAll" =>
             /\ ~stopProcessingRef'
             /\ Len(cRuns') = 1
             /\ cRuns'[1].pending = PendingDocs(cDocuments)
             /\ cRuns'[1].idx = 1
             /\ \A j \in DOMAIN cRuns'[1].pending :
                   StatusOf(cDocuments, cRuns'[1].pending[j])
                      \in {"pending", "error"}
             /\ StatusOf(cDocuments', lastOp'.id) = "processing"
       /\ (lastOp'.op = "analysed" /\ cRuns' = <<>> /\ ~stopProcessingRef) =>
             \A i \in DOMAIN cRuns : cRuns[i].idx = Len(cRuns[i].pending)]_vars

\* processAll has started while the stop signal of the run before was
\* still set, next to a record that run had completed; the signal is
\* cleared and the first record left over is Processing
C30_Witness ==
    /\ lastOp.op = "processAll" /\ lastOp.remote = "stop"
    /\ ~stopProcessingRef
    /\ StatusOf(cDocuments, lastOp.id) = "processing"
    /\ \E i \in DOMAIN cDocuments : cDocuments[i].status = "completed"

====
